---- MODULE Spec2Model ----
(***************************************************************************)
(* Signal engine of trading-signals-v3 (src/src/strategy_v2.js): the       *)
(* indicator library, the structure detectors, the entry and stop          *)
(* resolvers, generateSignal and the scan loop scanAllSymbolsV2.           *)
(*                                                                         *)
(* Numbers.  A bar's open/high/low/close and a ticker's last price are     *)
(* integers (price ticks).  Every value the code derives from them by a    *)
(* decimal factor (x0.5, x0.998, x1.002, x0.995, x1.005, /14, /20, /50,    *)
(* x1.5) is kept exactly, as an integer number of 1/Unit ticks.  RSI and   *)
(* confidence are exact fractions [num, den].  Arithmetic is therefore     *)
(* exact where the code's is IEEE double.                                  *)
(*                                                                         *)
(* Positions.  Sequences are 1-based: the code's klines[i] is klines[i+1]  *)
(* here, and every loop range is shifted by one accordingly.               *)
(***************************************************************************)
EXTENDS Integers, Sequences, FiniteSets, TLC

VARIABLES
    klines,      \* generateSignal / calculateSMCEntryPrice: the bar sequence argument
    ticker,      \* generateSignal: the ticker argument
    callPc,      \* "ready" before the call, "returned" after it
    signal,      \* generateSignal's outcome (a signal record, or a thrown error)
    entryDir,    \* calculateSMCEntryPrice: the direction argument of the direct call
    entryInfo,   \* calculateSMCEntryPrice's result of the direct call
    klinesData,  \* scanAllSymbolsV2: the klinesData argument (symbol -> bars or Missing)
    tickers,     \* scanAllSymbolsV2: the tickers argument (symbol -> ticker or Missing)
    pos,         \* scanAllSymbolsV2: position of the for-of loop in SYMBOLS_54
    signals,     \* scanAllSymbolsV2: const signals = []
    filtered,    \* scanAllSymbolsV2: const filtered = []
    scanPc,      \* "loop" while iterating, then "returned" or "rejected"
    scanResult,  \* the returned ScanResult
    calls,       \* history: the symbols generateSignal was called for, in order
    detected,    \* results of the structure detectors called on klines
    indicators,  \* results of calculateATR / calculateMA / calculateRSI
    swingArg,    \* detectBOS: the swingPoints argument
    bosList,     \* detectBOS's result
    scanStatus,  \* server_v3.js: scanStatus.status
    running,     \* server_v3.js: the performScan calls in flight, in the order
                 \* they started, each with the await it is suspended at
    started,     \* history: number of performScan calls started so far
    lastGuard    \* history: the latest decision of a RUNNING guard

vars == <<klines, ticker, callPc, signal, entryDir, entryInfo,
          klinesData, tickers, pos, signals, filtered, scanPc, scanResult,
          calls, detected, indicators, swingArg, bosList,
          scanStatus, running, started, lastGuard>>

detectVars == <<detected, indicators, swingArg, bosList>>
serverVars == <<scanStatus, running, started, lastGuard>>

signalVars == <<klines, ticker, callPc, signal, entryDir, entryInfo>>
scanVars == <<klinesData, tickers, pos, signals, filtered, scanPc, scanResult,
              calls>>

----------------------------------------------------------------------------
(* Program constants *)

\* CONFIG.MIN_KLINES
MIN_KLINES == 50
\* the default period of calculateATR and of calculateRSI, the default
\* lookback of findSwingPoints: generateSignal passes none of them
ATR_PERIOD == 14
RSI_PERIOD == 14
SWING_LOOKBACK == 5
\* calculateMA(klines, 20) and calculateMA(klines, 50)
MA_FAST == 20
MA_SLOW == 50

\* 1 tick = Unit fixed-point units; 1000 carries the per-mille factors, 14
\* (with the 1000) the halving, the divisions by 14, 20 and 50 and the x1.5
\* of the ATR stop.
Unit == 1000 * 14

\* TIMEFRAME_MS['4h'] = 4 * 60 * 60 * 1000: milliseconds between two bars of
\* the interval the server requests
TIMEFRAME_MS_4h == 14400000

\* CONFIG.FVG_ENTRY_RATIO = 0.5, CONFIG.OB_ENTRY_OFFSET = 0.002 and
\* MAX_ENTRY_DISTANCE = 0.015, in per mille.
FVG_ENTRY_RATIO == 500
OB_ENTRY_OFFSET == 2
MAX_ENTRY_DISTANCE == 15

\* x * (permille / 1000) for x in fixed-point units that are multiples of 1000
Scale(x, permille) == (x \div 1000) * permille

Abs(x) == IF x < 0 THEN -x ELSE x
Max(a, b) == IF a >= b THEN a ELSE b

\* undefined / null / a missing property
Missing == [missing |-> TRUE]
\* a null element of a bar array
NullBar == [null |-> TRUE]

----------------------------------------------------------------------------
(* Bounds of the input family *)

\* close the first bar is chained to
BasePrice == 1000
\* number of freely chosen bars (the motif) inside the series
MotifLen == 2
\* number of instruments of the universe that are scanned
UniverseSize == 3
\* longest list of swing points of one kind handed to detectBOS
MaxSwings == 3
\* number of performScan calls the server starts
MaxScans == 3

\* bars that follow the motif: SWING_LOOKBACK + 1, so that the motif's bars
\* are inside the window findSwingPoints inspects
TailLen == SWING_LOOKBACK + 1

(* A bar is built from the previous close by a move: F (flat, no range),   *)
(* U1/U3 (opens at the previous close, closes 1/3 higher, with a wick of 1 *)
(* above the close) and D1/D3 (closes 1/3 lower, with a wick of 1 below    *)
(* the close).                                                             *)
Moves == {"F", "U1", "U3", "D1", "D3"}

MoveSize(m) ==
    CASE m = "U1" -> 1 [] m = "U3" -> 3 [] m = "D1" -> -1 [] m = "D3" -> -3
      [] OTHER -> 0

BarOf(prevClose, m) ==
    LET c == prevClose + MoveSize(m)
    IN [open  |-> prevClose,
        close |-> c,
        high  |-> IF c > prevClose THEN c + 1 ELSE prevClose,
        low   |-> IF c < prevClose THEN c - 1 ELSE prevClose]

\* time of the i-th bar: getKlines sorts the bars by time, and they are one
\* interval apart
TimeOf(i) == i * TIMEFRAME_MS_4h

\* repeating move patterns of the bars before and after the motif
Patterns == {<<"F">>, <<"U1">>, <<"D1">>, <<"U3">>, <<"U1", "D1">>,
             <<"U3", "D1">>, <<"D3", "U1">>}

\* older history in front of the MIN_KLINES most recent bars: none, or three
\* rising bars that leave a bullish gap
Leads == {<<>>, <<"U3", "U3", "U3">>}

(* A series is lead, then pre repeated, then the motif, then post repeated  *)
(* for TailLen bars; without the lead it has exactly MIN_KLINES bars.       *)
Profiles ==
    [lead : Leads, pre : Patterns, motif : [1..MotifLen -> Moves],
     post : Patterns]

SeriesLen(p) == Len(p.lead) + MIN_KLINES

MoveAt(p, i) ==
    LET leadLen == Len(p.lead)
        preEnd == SeriesLen(p) - TailLen - MotifLen
    IN IF i <= leadLen THEN p.lead[i]
       ELSE IF i <= preEnd THEN p.pre[((i - leadLen - 1) % Len(p.pre)) + 1]
       ELSE IF i <= preEnd + MotifLen THEN p.motif[i - preEnd]
       ELSE p.post[((i - preEnd - MotifLen - 1) % Len(p.post)) + 1]

RECURSIVE BuildBars(_, _, _, _)
BuildBars(p, i, prevClose, acc) ==
    IF i > SeriesLen(p) THEN acc
    ELSE LET b == BarOf(prevClose, MoveAt(p, i))
         IN BuildBars(p, i + 1, b.close, Append(acc, [time |-> TimeOf(i)] @@ b))

\* the bar sequence a profile denotes
BarsOf(p) == BuildBars(p, 1, BasePrice, <<>>)

\* ticker.last values: 0 (falsy, so the last close is used), and two quotes
TickerLasts == {0, BasePrice, BasePrice + 40}

----------------------------------------------------------------------------
(* IndicatorLibrary *)

RECURSIVE SumOver(_, _, _)
\* sum of f[i] for i in a..b
SumOver(f, a, b) == IF a > b THEN 0 ELSE f[a] + SumOver(f, a + 1, b)

TrueRange(ks, i) ==
    LET current == ks[i]
        prev == ks[i - 1]
        tr1 == current.high - current.low
        tr2 == Abs(current.high - prev.close)
        tr3 == Abs(current.low - prev.close)
    IN Max(tr1, Max(tr2, tr3))

\* calculateATR that requires period bars instead of period + 1
calculateATRShortGuard(ks, period) ==
    IF Len(ks) < period THEN 0
    ELSE LET n == Len(ks)
             trValues == [i \in 2..n |-> TrueRange(ks, i)]
         IN SumOver(trValues, Max(2, n - period + 1), n) * (Unit \div period)

\* in fixed-point units
calculateATR(ks, period) ==
    IF Len(ks) < period + 1 THEN 0
    ELSE LET n == Len(ks)
             trValues == [i \in 2..n |-> TrueRange(ks, i)]
         IN SumOver(trValues, n - period + 1, n) * (Unit \div period)

\* Missing for null, else the mean in fixed-point units
calculateMA(ks, period) ==
    IF Len(ks) < period THEN Missing
    ELSE LET n == Len(ks)
             closes == [i \in (n - period + 1)..n |-> ks[i].close]
         IN [value |-> SumOver(closes, n - period + 1, n) * (Unit \div period)]

\* the fraction num/den
calculateRSI(ks, period) ==
    IF Len(ks) < period + 1 THEN [num |-> 50, den |-> 1]
    ELSE LET n == Len(ks)
             change == [i \in (n - period + 1)..n |-> ks[i].close - ks[i - 1].close]
             gain == [i \in (n - period + 1)..n |-> IF change[i] > 0 THEN change[i] ELSE 0]
             loss == [i \in (n - period + 1)..n |-> IF change[i] > 0 THEN 0 ELSE Abs(change[i])]
             gains == SumOver(gain, n - period + 1, n)
             losses == SumOver(loss, n - period + 1, n)
         IN IF losses = 0 THEN [num |-> 100, den |-> 1]
            \* rs = gains/losses; 100 - 100/(1 + rs)
            ELSE [num |-> 100 * (losses + gains) - 100 * losses,
                  den |-> losses + gains]

----------------------------------------------------------------------------
(* StructureDetector *)

\* the sequence a, a+1, ..., b
Range(a, b) == [k \in 1..(IF b >= a THEN b - a + 1 ELSE 0) |-> a + k - 1]

IsSwingHigh(ks, i, lookback) ==
    \A j \in 1..lookback :
        ~(ks[i - j].high >= ks[i].high \/ ks[i + j].high >= ks[i].high)

\* IsSwingLow that lets a neighbour with an equal low pass
IsSwingLowAllowingTies(ks, i, lookback) ==
    \A j \in 1..lookback :
        ~(ks[i - j].low < ks[i].low \/ ks[i + j].low < ks[i].low)

IsSwingLow(ks, i, lookback) ==
    \A j \in 1..lookback :
        ~(ks[i - j].low <= ks[i].low \/ ks[i + j].low <= ks[i].low)

\* index is the 1-based position of the bar
findSwingPoints(ks, lookback) ==
    LET idx == Range(lookback + 1, Len(ks) - lookback)
        highs == SelectSeq(idx, LAMBDA i : IsSwingHigh(ks, i, lookback))
        lows == SelectSeq(idx, LAMBDA i : IsSwingLow(ks, i, lookback))
    IN [swingHighs |-> [k \in 1..Len(highs) |->
                           [index |-> highs[k], price |-> ks[highs[k]].high,
                            time |-> ks[highs[k]].time]],
        swingLows |-> [k \in 1..Len(lows) |->
                           [index |-> lows[k], price |-> ks[lows[k]].low,
                            time |-> ks[lows[k]].time]]]

\* FVGAt that also takes bars that touch for a gap
FVGAtTouching(ks, i) ==
    LET k1 == ks[i - 2]
        k3 == ks[i]
        bull == IF k1.high <= k3.low
                THEN <<[type |-> "BULLISH", top |-> k3.low, bottom |-> k1.high,
                        mid |-> (k3.low + k1.high) * (Unit \div 2),
                        timestamp |-> k3.time, index |-> i]>>
                ELSE <<>>
        bear == IF k1.low >= k3.high
                THEN <<[type |-> "BEARISH", top |-> k1.low, bottom |-> k3.high,
                        mid |-> (k1.low + k3.high) * (Unit \div 2),
                        timestamp |-> k3.time, index |-> i]>>
                ELSE <<>>
    IN bull \o bear

\* the gaps pushed in the loop iteration whose k3 is ks[i]; top, bottom in
\* ticks, mid in fixed-point units
FVGAt(ks, i) ==
    LET k1 == ks[i - 2]
        k3 == ks[i]
        bull == IF k1.high < k3.low
                THEN <<[type |-> "BULLISH", top |-> k3.low, bottom |-> k1.high,
                        mid |-> (k3.low + k1.high) * (Unit \div 2),
                        timestamp |-> k3.time, index |-> i]>>
                ELSE <<>>
        bear == IF k1.low > k3.high
                THEN <<[type |-> "BEARISH", top |-> k1.low, bottom |-> k3.high,
                        mid |-> (k1.low + k3.high) * (Unit \div 2),
                        timestamp |-> k3.time, index |-> i]>>
                ELSE <<>>
    IN bull \o bear

RECURSIVE FVGFrom(_, _)
FVGFrom(ks, i) == IF i > Len(ks) THEN <<>> ELSE FVGAt(ks, i) \o FVGFrom(ks, i + 1)

detectFVG(ks) == FVGFrom(ks, 3)

\* the blocks pushed in the loop iteration whose k3 is ks[i]
OrderBlocksAt(ks, i) ==
    LET k1 == ks[i - 2]
        k2 == ks[i - 1]
        k3 == ks[i]
        block(t) == [type |-> t, high |-> k2.high, low |-> k2.low,
                     open |-> k2.open, close |-> k2.close,
                     timestamp |-> k2.time, index |-> i - 1]
        bull == IF k1.close < k1.open /\ k2.close < k2.open /\ k3.close > k3.open
                   /\ k3.close > k2.high /\ k2.low < k1.low
                THEN <<block("BULLISH")>> ELSE <<>>
        bear == IF k1.close > k1.open /\ k2.close > k2.open /\ k3.close < k3.open
                   /\ k3.close < k2.low /\ k2.high > k1.high
                THEN <<block("BEARISH")>> ELSE <<>>
    IN bull \o bear

RECURSIVE OrderBlocksFrom(_, _)
\* for (let i = 3; i < klines.length - 1; i++)
OrderBlocksFrom(ks, i) ==
    IF i > Len(ks) - 1 THEN <<>>
    ELSE OrderBlocksAt(ks, i) \o OrderBlocksFrom(ks, i + 1)

detectOrderBlocks(ks) == OrderBlocksFrom(ks, 4)

\* the bullish break of detectBOS, or none
BullishBreak(lastKline, prevKline, prevSwingHigh) ==
    IF lastKline.close > prevSwingHigh.price
       /\ prevKline.close <= prevSwingHigh.price
    THEN <<[type |-> "BULLISH", level |-> prevSwingHigh.price,
            timestamp |-> lastKline.time,
            confirmed |-> lastKline.close > lastKline.open]>>
    ELSE <<>>

\* BearishBreak without the condition on the previous bar's close
BearishBreakAnyPrev(lastKline, prevKline, prevSwingLow) ==
    IF lastKline.close < prevSwingLow.price
    THEN <<[type |-> "BEARISH", level |-> prevSwingLow.price,
            timestamp |-> lastKline.time,
            confirmed |-> lastKline.close < lastKline.open]>>
    ELSE <<>>

\* the bearish break of detectBOS, or none
BearishBreak(lastKline, prevKline, prevSwingLow) ==
    IF lastKline.close < prevSwingLow.price
       /\ prevKline.close >= prevSwingLow.price
    THEN <<[type |-> "BEARISH", level |-> prevSwingLow.price,
            timestamp |-> lastKline.time,
            confirmed |-> lastKline.close < lastKline.open]>>
    ELSE <<>>

\* ks has at least two bars
detectBOS(ks, swingPoints) ==
    IF Len(swingPoints.swingHighs) < 2 \/ Len(swingPoints.swingLows) < 2
    THEN <<>>
    ELSE BullishBreak(ks[Len(ks)], ks[Len(ks) - 1],
                      swingPoints.swingHighs[Len(swingPoints.swingHighs) - 1])
         \o BearishBreak(ks[Len(ks)], ks[Len(ks) - 1],
                         swingPoints.swingLows[Len(swingPoints.swingLows) - 1])

OfType(list, t) == SelectSeq(list, LAMBDA x : x.type = t)
Last(s) == s[Len(s)]
\* Array.prototype.slice(-3)
LastThree(s) == SubSeq(s, Max(1, Len(s) - 2), Len(s))

----------------------------------------------------------------------------
(* EntryPriceResolver.  currentPrice is in ticks, the returned price in     *)
(* fixed-point units.  The description strings and the distance field are   *)
(* not modelled.                                                            *)

Matches(direction, x) ==
    \/ direction = "LONG" /\ x.type = "BULLISH"
    \/ direction = "SHORT" /\ x.type = "BEARISH"

\* NearEntry that never finds the current price near the entry
NearEntryNever(currentPrice, entryPrice) == FALSE

\* Math.abs(currentPrice - entryPrice) / currentPrice < MAX_ENTRY_DISTANCE;
\* a division by 0 gives Infinity or NaN, and the comparison is then false
NearEntry(currentPrice, entryPrice) ==
    IF currentPrice > 0
    THEN Abs(currentPrice * Unit - entryPrice)
            < MAX_ENTRY_DISTANCE * currentPrice * (Unit \div 1000)
    ELSE currentPrice < 0

\* calculateSMCEntryPrice with the order block rule tried before the FVG rule
calculateSMCEntryPriceObFirst(direction, ks, fvgList, obList, swingPoints, currentPrice) ==
    LET relevantFVGs == SelectSeq(fvgList, LAMBDA fvg : Matches(direction, fvg))
        relevantOBs == SelectSeq(obList, LAMBDA ob : Matches(direction, ob))
        swingHighs == swingPoints.swingHighs
        swingLows == swingPoints.swingLows
    IN IF Len(relevantOBs) > 0
       THEN LET lastOB == Last(relevantOBs)
                entryPrice ==
                    IF direction = "LONG"
                    THEN Scale(lastOB.high * Unit, 1000 + OB_ENTRY_OFFSET)
                    ELSE Scale(lastOB.low * Unit, 1000 - OB_ENTRY_OFFSET)
            IN [price |-> entryPrice, type |-> "OB_EDGE", ob |-> lastOB]
       ELSE IF Len(relevantFVGs) > 0
       THEN LET lastFVG == Last(relevantFVGs)
                fvgHeight == (lastFVG.top - lastFVG.bottom) * Unit
                entryPrice ==
                    IF direction = "LONG"
                    THEN lastFVG.bottom * Unit + Scale(fvgHeight, FVG_ENTRY_RATIO)
                    ELSE lastFVG.top * Unit - Scale(fvgHeight, FVG_ENTRY_RATIO)
                inFVG == currentPrice >= lastFVG.bottom /\ currentPrice <= lastFVG.top
                nearFVG == NearEntry(currentPrice, entryPrice)
            IN [price |-> entryPrice, type |-> "FVG_MID", fvg |-> lastFVG,
                tradable |-> (inFVG \/ nearFVG), inFVG |-> inFVG]
       ELSE IF direction = "LONG" /\ Len(swingLows) > 0
       THEN LET lastSwingLow == Last(swingLows)
            IN [price |-> Scale(lastSwingLow.price * Unit, 1000 + OB_ENTRY_OFFSET),
                type |-> "SWING_LOW", swing |-> lastSwingLow]
       ELSE IF direction = "SHORT" /\ Len(swingHighs) > 0
       THEN LET lastSwingHigh == Last(swingHighs)
            IN [price |-> Scale(lastSwingHigh.price * Unit, 1000 - OB_ENTRY_OFFSET),
                type |-> "SWING_HIGH", swing |-> lastSwingHigh]
       ELSE [price |-> currentPrice * Unit, type |-> "CURRENT_PRICE",
             fallback |-> TRUE]

calculateSMCEntryPrice(direction, ks, fvgList, obList, swingPoints, currentPrice) ==
    LET relevantFVGs == SelectSeq(fvgList, LAMBDA fvg : Matches(direction, fvg))
        relevantOBs == SelectSeq(obList, LAMBDA ob : Matches(direction, ob))
        swingHighs == swingPoints.swingHighs
        swingLows == swingPoints.swingLows
    IN IF Len(relevantFVGs) > 0
       THEN LET lastFVG == Last(relevantFVGs)
                fvgHeight == (lastFVG.top - lastFVG.bottom) * Unit
                entryPrice ==
                    IF direction = "LONG"
                    THEN lastFVG.bottom * Unit + Scale(fvgHeight, FVG_ENTRY_RATIO)
                    ELSE lastFVG.top * Unit - Scale(fvgHeight, FVG_ENTRY_RATIO)
                inFVG == currentPrice >= lastFVG.bottom /\ currentPrice <= lastFVG.top
                nearFVG == NearEntry(currentPrice, entryPrice)
            IN [price |-> entryPrice, type |-> "FVG_MID", fvg |-> lastFVG,
                tradable |-> (inFVG \/ nearFVG), inFVG |-> inFVG]
       ELSE IF Len(relevantOBs) > 0
       THEN LET lastOB == Last(relevantOBs)
                entryPrice ==
                    IF direction = "LONG"
                    THEN Scale(lastOB.high * Unit, 1000 + OB_ENTRY_OFFSET)
                    ELSE Scale(lastOB.low * Unit, 1000 - OB_ENTRY_OFFSET)
            IN [price |-> entryPrice, type |-> "OB_EDGE", ob |-> lastOB]
       ELSE IF direction = "LONG" /\ Len(swingLows) > 0
       THEN LET lastSwingLow == Last(swingLows)
            IN [price |-> Scale(lastSwingLow.price * Unit, 1000 + OB_ENTRY_OFFSET),
                type |-> "SWING_LOW", swing |-> lastSwingLow]
       ELSE IF direction = "SHORT" /\ Len(swingHighs) > 0
       THEN LET lastSwingHigh == Last(swingHighs)
            IN [price |-> Scale(lastSwingHigh.price * Unit, 1000 - OB_ENTRY_OFFSET),
                type |-> "SWING_HIGH", swing |-> lastSwingHigh]
       ELSE [price |-> currentPrice * Unit, type |-> "CURRENT_PRICE",
             fallback |-> TRUE]

----------------------------------------------------------------------------
(* StopLossResolver.  entryPrice and atr are in fixed-point units. *)

\* calculateSL with the order block rule tried before the FVG rule
calculateSLObFirst(direction, entryPrice, ks, fvgList, obList, swingPoints, atr) ==
    LET swingHighs == swingPoints.swingHighs
        swingLows == swingPoints.swingLows
    IN IF direction = "LONG"
       THEN LET bullishFVGs == OfType(fvgList, "BULLISH")
                bullishOBs == OfType(obList, "BULLISH")
            IN IF Len(bullishOBs) > 0
               THEN [price |-> Scale(Last(bullishOBs).low * Unit, 998),
                     type |-> "OB_LOW"]
               ELSE IF Len(bullishFVGs) > 0
               THEN [price |-> Scale(Last(bullishFVGs).bottom * Unit, 998),
                     type |-> "FVG_BOTTOM"]
               ELSE IF Len(swingLows) > 0
               THEN [price |-> Scale(Last(swingLows).price * Unit, 995),
                     type |-> "SWING_LOW"]
               ELSE [price |-> entryPrice - Scale(atr, 1500), type |-> "ATR"]
       ELSE LET bearishFVGs == OfType(fvgList, "BEARISH")
                bearishOBs == OfType(obList, "BEARISH")
            IN IF Len(bearishOBs) > 0
               THEN [price |-> Scale(Last(bearishOBs).high * Unit, 1002),
                     type |-> "OB_HIGH"]
               ELSE IF Len(bearishFVGs) > 0
               THEN [price |-> Scale(Last(bearishFVGs).top * Unit, 1002),
                     type |-> "FVG_TOP"]
               ELSE IF Len(swingHighs) > 0
               THEN [price |-> Scale(Last(swingHighs).price * Unit, 1005),
                     type |-> "SWING_HIGH"]
               ELSE [price |-> entryPrice + Scale(atr, 1500), type |-> "ATR"]

calculateSL(direction, entryPrice, ks, fvgList, obList, swingPoints, atr) ==
    LET swingHighs == swingPoints.swingHighs
        swingLows == swingPoints.swingLows
    IN IF direction = "LONG"
       THEN LET bullishFVGs == OfType(fvgList, "BULLISH")
                bullishOBs == OfType(obList, "BULLISH")
            IN IF Len(bullishFVGs) > 0
               THEN [price |-> Scale(Last(bullishFVGs).bottom * Unit, 998),
                     type |-> "FVG_BOTTOM"]
               ELSE IF Len(bullishOBs) > 0
               THEN [price |-> Scale(Last(bullishOBs).low * Unit, 998),
                     type |-> "OB_LOW"]
               ELSE IF Len(swingLows) > 0
               THEN [price |-> Scale(Last(swingLows).price * Unit, 995),
                     type |-> "SWING_LOW"]
               ELSE [price |-> entryPrice - Scale(atr, 1500), type |-> "ATR"]
       ELSE LET bearishFVGs == OfType(fvgList, "BEARISH")
                bearishOBs == OfType(obList, "BEARISH")
            IN IF Len(bearishFVGs) > 0
               THEN [price |-> Scale(Last(bearishFVGs).top * Unit, 1002),
                     type |-> "FVG_TOP"]
               ELSE IF Len(bearishOBs) > 0
               THEN [price |-> Scale(Last(bearishOBs).high * Unit, 1002),
                     type |-> "OB_HIGH"]
               ELSE IF Len(swingHighs) > 0
               THEN [price |-> Scale(Last(swingHighs).price * Unit, 1005),
                     type |-> "SWING_HIGH"]
               ELSE [price |-> entryPrice + Scale(atr, 1500), type |-> "ATR"]

----------------------------------------------------------------------------
(* SignalComposer *)

\* JavaScript truthiness of calculateMA's result: null and 0 are falsy
Truthy(ma) == IF ma = Missing THEN FALSE ELSE ma.value # 0

\* int + b for an integer int and a fraction b
FracAdd(int, b) == [num |-> b.num + int * b.den, den |-> b.den]

\* Math.round of a fraction with a positive denominator: floor(x + 1/2)
MathRound(x) == (2 * x.num + x.den) \div (2 * x.den)

\* x >= n for a fraction x with a positive denominator
FracGeq(x, n) == x.num >= n * x.den

\* DirectionOf with the FVG confirmation restricted to a direction that the
\* moving averages and the RSI agreed on
DirectionOfNoDefaultBonus(ks, fvgList) ==
    LET ma20 == calculateMA(ks, MA_FAST)
        ma50 == calculateMA(ks, MA_SLOW)
        rsi == calculateRSI(ks, RSI_PERIOD)
        halfAbove == [num |-> rsi.num - 50 * rsi.den, den |-> 2 * rsi.den]
        halfBelow == [num |-> 50 * rsi.den - rsi.num, den |-> 2 * rsi.den]
        recentFVGs == LastThree(fvgList)
        bullishFVGs == Len(OfType(recentFVGs, "BULLISH"))
        bearishFVGs == Len(OfType(recentFVGs, "BEARISH"))
    IN IF Truthy(ma20) /\ Truthy(ma50) /\ ma20.value > ma50.value
          /\ rsi.num > 50 * rsi.den
       THEN [direction |-> "LONG",
             confidence |-> IF bullishFVGs > bearishFVGs
                            THEN FracAdd(10, FracAdd(60, halfAbove))
                            ELSE FracAdd(60, halfAbove)]
       ELSE IF Truthy(ma20) /\ Truthy(ma50) /\ ma20.value < ma50.value
               /\ rsi.num < 50 * rsi.den
       THEN [direction |-> "SHORT",
             confidence |-> IF bearishFVGs > bullishFVGs
                            THEN FracAdd(10, FracAdd(60, halfBelow))
                            ELSE FracAdd(60, halfBelow)]
       ELSE [direction |-> "LONG", confidence |-> [num |-> 50, den |-> 1]]

\* direction and confidence from MA20, MA50 and RSI, then the FVG confirmation
DirectionOf(ks, fvgList) ==
    LET ma20 == calculateMA(ks, MA_FAST)
        ma50 == calculateMA(ks, MA_SLOW)
        rsi == calculateRSI(ks, RSI_PERIOD)
        rsiAbove == rsi.num > 50 * rsi.den
        rsiBelow == rsi.num < 50 * rsi.den
        \* (rsi - 50) * 0.5 and (50 - rsi) * 0.5
        halfAbove == [num |-> rsi.num - 50 * rsi.den, den |-> 2 * rsi.den]
        halfBelow == [num |-> 50 * rsi.den - rsi.num, den |-> 2 * rsi.den]
        base ==
            IF Truthy(ma20) /\ Truthy(ma50)
            THEN IF ma20.value > ma50.value /\ rsiAbove
                 THEN [direction |-> "LONG", confidence |-> FracAdd(60, halfAbove)]
                 ELSE IF ma20.value < ma50.value /\ rsiBelow
                 THEN [direction |-> "SHORT", confidence |-> FracAdd(60, halfBelow)]
                 ELSE [direction |-> "LONG", confidence |-> [num |-> 50, den |-> 1]]
            ELSE [direction |-> "LONG", confidence |-> [num |-> 50, den |-> 1]]
        recentFVGs == LastThree(fvgList)
        bullishFVGs == Len(OfType(recentFVGs, "BULLISH"))
        bearishFVGs == Len(OfType(recentFVGs, "BEARISH"))
    IN IF bullishFVGs > bearishFVGs /\ base.direction = "LONG"
       THEN [base EXCEPT !.confidence = FracAdd(10, base.confidence)]
       ELSE IF bearishFVGs > bullishFVGs /\ base.direction = "SHORT"
       THEN [base EXCEPT !.confidence = FracAdd(10, base.confidence)]
       ELSE base

\* take profits and the reward-to-risk ratio
TargetsOf(direction, entryPrice, stopLoss) ==
    LET risk == Abs(entryPrice - stopLoss)
        tp1 == IF direction = "LONG" THEN entryPrice + risk * 2
               ELSE entryPrice - risk * 2
        tp2 == IF direction = "LONG" THEN entryPrice + risk * 3
               ELSE entryPrice - risk * 3
    IN [tp1 |-> tp1, tp2 |-> tp2,
        \* (tp1 - entryPrice) is 2 * risk or -2 * risk: the division is exact
        rrr |-> IF risk > 0 THEN (tp1 - entryPrice) \div risk ELSE 2]

\* RatingOf without the final downgrade of a CURRENT_PRICE entry
RatingOfNoOverride(confidence, entryType) ==
    IF FracGeq(confidence, 85) /\ entryType # "CURRENT_PRICE"
    THEN [rating |-> "S", signalType |-> "TRADABLE"]
    ELSE IF FracGeq(confidence, 70) /\ entryType # "CURRENT_PRICE"
    THEN [rating |-> "A", signalType |-> "TRADABLE"]
    ELSE IF FracGeq(confidence, 55)
    THEN [rating |-> "B",
          signalType |-> IF entryType # "CURRENT_PRICE" THEN "TRADABLE"
                         ELSE "CANDIDATE"]
    ELSE [rating |-> "C", signalType |-> "CANDIDATE"]

\* RatingOf with the S threshold at 80 instead of 85
RatingOfLowS(confidence, entryType) ==
    IF entryType = "CURRENT_PRICE"
    THEN [rating |-> "C", signalType |-> "CANDIDATE"]
    ELSE IF FracGeq(confidence, 80)
    THEN [rating |-> "S", signalType |-> "TRADABLE"]
    ELSE IF FracGeq(confidence, 70)
    THEN [rating |-> "A", signalType |-> "TRADABLE"]
    ELSE IF FracGeq(confidence, 55)
    THEN [rating |-> "B", signalType |-> "TRADABLE"]
    ELSE [rating |-> "C", signalType |-> "CANDIDATE"]

\* rating and signal type
RatingOf(confidence, entryType) ==
    LET graded ==
            IF FracGeq(confidence, 85) /\ entryType # "CURRENT_PRICE"
            THEN [rating |-> "S", signalType |-> "TRADABLE"]
            ELSE IF FracGeq(confidence, 70) /\ entryType # "CURRENT_PRICE"
            THEN [rating |-> "A", signalType |-> "TRADABLE"]
            ELSE IF FracGeq(confidence, 55)
            THEN [rating |-> "B",
                  signalType |-> IF entryType # "CURRENT_PRICE" THEN "TRADABLE"
                                 ELSE "CANDIDATE"]
            ELSE [rating |-> "C", signalType |-> "CANDIDATE"]
    IN IF entryType = "CURRENT_PRICE"
       THEN [rating |-> "C", signalType |-> "CANDIDATE"]
       ELSE graded

HasNullBar(ks) == \E i \in 1..Len(ks) : ks[i] = NullBar

\* ticker?.last || klines[klines.length - 1].close, in ticks
CurrentPriceOf(ks, tk) ==
    IF "last" \in DOMAIN tk /\ tk.last # 0 THEN tk.last ELSE Last(ks).close

\* the message of the TypeError a null bar raises: the first property read on
\* it is 'close' (line 462 for the last bar, or prev.close in calculateATR
\* for the first bar) or 'high' (current.high in calculateATR)
NullBarMessage(ks, tk) ==
    IF ~("last" \in DOMAIN tk /\ tk.last # 0) /\ Last(ks) = NullBar
    THEN "Cannot read properties of null (reading 'close')"
    ELSE IF ks[1] = NullBar /\ ks[2] # NullBar
    THEN "Cannot read properties of null (reading 'close')"
    ELSE "Cannot read properties of null (reading 'high')"

(* generateSignal is written as a chain of four operators, one per stage of *)
(* the function body, each handing the local variables computed so far to   *)
(* the next as arguments.                                                   *)

\* lines 549-579: targets, rating and the returned object.  confidence is
\* the local variable of that name, kept beside score.
composeSignal(symbol, currentPrice, atr, dir, entryInfo_, slInfo) ==
    LET targets == TargetsOf(dir.direction, entryInfo_.price, slInfo.price)
        rated == RatingOf(dir.confidence, entryInfo_.type)
    IN [thrown |-> FALSE,
        symbol |-> symbol,
        direction |-> dir.direction,
        entry_price |-> entryInfo_.price,
        entry_type |-> entryInfo_.type,
        current_price |-> currentPrice * Unit,
        sl |-> slInfo.price,
        sl_type |-> slInfo.type,
        tp1 |-> targets.tp1,
        tp2 |-> targets.tp2,
        rrr |-> targets.rrr,
        rating |-> rated.rating,
        score |-> MathRound(dir.confidence),
        signal_type |-> rated.signalType,
        atr |-> atr,
        confidence |-> dir.confidence]

\* lines 509-511: slInfo, stopLoss
composeStop(symbol, ks, currentPrice, atr, swingPoints, fvgList, obList, dir, entryInfo_) ==
    composeSignal(symbol, currentPrice, atr, dir, entryInfo_,
                  calculateSL(dir.direction, entryInfo_.price, ks, fvgList,
                              obList, swingPoints, atr))

\* lines 505-507: entryInfo, entryPrice
composeEntry(symbol, ks, currentPrice, atr, swingPoints, fvgList, obList, dir) ==
    composeStop(symbol, ks, currentPrice, atr, swingPoints, fvgList, obList, dir,
                calculateSMCEntryPrice(dir.direction, ks, fvgList, obList,
                                       swingPoints, currentPrice))

\* lines 473-503: direction, confidence
composeDirection(symbol, ks, currentPrice, atr, swingPoints, fvgList, obList) ==
    composeEntry(symbol, ks, currentPrice, atr, swingPoints, fvgList, obList,
                 DirectionOf(ks, fvgList))

\* the returned signal, or the error thrown; prices in fixed-point units
generateSignal(symbol, ks, tk) ==
    IF HasNullBar(ks)
    THEN [thrown |-> TRUE, message |-> NullBarMessage(ks, tk)]
    ELSE composeDirection(symbol, ks, CurrentPriceOf(ks, tk),
                          calculateATR(ks, ATR_PERIOD),
                          findSwingPoints(ks, SWING_LOOKBACK),
                          detectFVG(ks), detectOrderBlocks(ks))

----------------------------------------------------------------------------
(* Calls of generateSignal and of calculateSMCEntryPrice on one bar series *)

NoScan ==
    /\ klinesData = <<>> /\ tickers = <<>> /\ pos = 0
    /\ signals = <<>> /\ filtered = <<>>
    /\ scanPc = "idle" /\ scanResult = Missing /\ calls = <<>>

\* no detector or indicator called on its own
NoDetect ==
    /\ detected = Missing /\ indicators = Missing
    /\ swingArg = Missing /\ bosList = <<>>

\* the server is not running
NoServer ==
    /\ scanStatus = "IDLE" /\ running = <<>> /\ started = 0
    /\ lastGuard = Missing

InitSignal ==
    /\ \E p \in Profiles : klines = BarsOf(p)
    /\ \E last \in TickerLasts : ticker = [last |-> last]
    /\ callPc = "ready"
    /\ signal = Missing
    /\ entryDir = "NONE"
    /\ entryInfo = Missing
    /\ NoScan /\ NoDetect /\ NoServer

\* generateSignal(symbol, klines, ticker)
GenerateSignal ==
    /\ callPc = "ready"
    /\ signal' = generateSignal("BTC_USDT", klines, ticker)
    /\ callPc' = "returned"
    /\ UNCHANGED <<klines, ticker, entryDir, entryInfo>>
    /\ UNCHANGED scanVars
    /\ UNCHANGED <<detectVars, serverVars>>

\* calculateSMCEntryPrice(direction, klines, fvgList, obList, swingPoints,
\* currentPrice) on the structures detected on klines
ResolveEntry ==
    /\ callPc = "ready"
    /\ \E direction \in {"LONG", "SHORT"} :
          /\ entryDir' = direction
          /\ entryInfo' = calculateSMCEntryPrice(direction, klines,
                              detectFVG(klines), detectOrderBlocks(klines),
                              findSwingPoints(klines, SWING_LOOKBACK),
                              CurrentPriceOf(klines, ticker))
    /\ callPc' = "returned"
    /\ UNCHANGED <<klines, ticker, signal>>
    /\ UNCHANGED scanVars
    /\ UNCHANGED <<detectVars, serverVars>>

NextSignal == GenerateSignal \/ ResolveEntry

SpecSignal == InitSignal /\ [][NextSignal]_vars

----------------------------------------------------------------------------
(* Calls of the structure detectors and of the indicators on one bar       *)
(* sequence: a series of the family, or the first n bars of one            *)

\* lengths of the shorter sequences: around the periods of the indicators,
\* and one that ends on the bar after the motif
DetectLens ==
    {0, ATR_PERIOD - 1, ATR_PERIOD, ATR_PERIOD + 1, MA_FAST - 1, MA_FAST,
     MIN_KLINES - TailLen + 1}

\* the series that are cut short: no lead, the same pattern on both sides of
\* the motif
CutProfiles == {p \in Profiles : p.lead = <<>> /\ p.post = p.pre}

\* the period arguments of the indicator calls
IndicatorPeriods == {ATR_PERIOD, MA_FAST}

InitDetect ==
    /\ \/ \E p \in Profiles : klines = BarsOf(p)
       \/ \E p \in CutProfiles : \E n \in DetectLens :
             klines = SubSeq(BarsOf(p), 1, n)
    /\ ticker = Missing
    /\ callPc = "ready"
    /\ signal = Missing
    /\ entryDir = "NONE"
    /\ entryInfo = Missing
    /\ NoScan /\ NoDetect /\ NoServer

\* findSwingPoints(klines), detectFVG(klines), detectOrderBlocks(klines) and
\* detectBOS(klines, swingPoints), as generateSignal calls them
DetectStructure ==
    /\ callPc = "ready"
    /\ detected' = [swingPoints |-> findSwingPoints(klines, SWING_LOOKBACK),
                    fvgList |-> detectFVG(klines),
                    obList |-> detectOrderBlocks(klines),
                    bosList |-> detectBOS(klines,
                                   findSwingPoints(klines, SWING_LOOKBACK))]
    /\ callPc' = "detected"
    /\ UNCHANGED <<klines, ticker, signal, entryDir, entryInfo>>
    /\ UNCHANGED <<indicators, swingArg, bosList>>
    /\ UNCHANGED <<scanVars, serverVars>>

\* calculateATR(klines, period), calculateMA(klines, period) and
\* calculateRSI(klines, period)
CalcIndicators ==
    /\ callPc = "ready"
    /\ \E period \in IndicatorPeriods :
          indicators' = [period |-> period,
                         atr |-> calculateATR(klines, period),
                         ma |-> calculateMA(klines, period),
                         rsi |-> calculateRSI(klines, period)]
    /\ callPc' = "calculated"
    /\ UNCHANGED <<klines, ticker, signal, entryDir, entryInfo>>
    /\ UNCHANGED <<detected, swingArg, bosList>>
    /\ UNCHANGED <<scanVars, serverVars>>

NextDetect == DetectStructure \/ CalcIndicators

SpecDetect == InitDetect /\ [][NextDetect]_vars

----------------------------------------------------------------------------
(* Calls of detectBOS on the latest bars and on swing points of any prices *)

\* the bars that the moves of a motif chain to BasePrice
RECURSIVE ChainBars(_, _, _, _)
ChainBars(moves, i, prevClose, acc) ==
    IF i > Len(moves) THEN acc
    ELSE ChainBars(moves, i + 1, prevClose + MoveSize(moves[i]),
                   Append(acc, [time |-> TimeOf(i)] @@ BarOf(prevClose, moves[i])))

\* swing prices: one below and one above BasePrice
SwingLevels == {BasePrice - 2, BasePrice + 2}


SwingPriceLists == UNION {[1..n -> SwingLevels] : n \in 0..MaxSwings}

\* swing points as findSwingPoints returns them
SwingsOf(prices) ==
    [k \in 1..Len(prices) |->
        [index |-> k, price |-> prices[k], time |-> TimeOf(k)]]

InitBOS ==
    /\ \E moves \in [1..MotifLen -> Moves] :
          klines = ChainBars(moves, 1, BasePrice, <<>>)
    /\ \E highs \in SwingPriceLists : \E lows \in SwingPriceLists :
          swingArg = [swingHighs |-> SwingsOf(highs), swingLows |-> SwingsOf(lows)]
    /\ ticker = Missing
    /\ callPc = "ready"
    /\ signal = Missing
    /\ entryDir = "NONE"
    /\ entryInfo = Missing
    /\ detected = Missing /\ indicators = Missing /\ bosList = <<>>
    /\ NoScan /\ NoServer

\* detectBOS(klines, swingPoints)
DetectBOS ==
    /\ callPc = "ready"
    /\ bosList' = detectBOS(klines, swingArg)
    /\ callPc' = "returned"
    /\ UNCHANGED <<klines, ticker, signal, entryDir, entryInfo>>
    /\ UNCHANGED <<detected, indicators, swingArg>>
    /\ UNCHANGED <<scanVars, serverVars>>

NextBOS == DetectBOS

SpecBOS == InitBOS /\ [][NextBOS]_vars

----------------------------------------------------------------------------
(* ScanOrchestrator *)

\* SYMBOLS_54 of gateio.js
GateSymbols ==
    <<"BTC_USDT", "ETH_USDT", "BNB_USDT", "SOL_USDT", "XRP_USDT",
      "DOGE_USDT", "TRX_USDT", "ADA_USDT", "AVAX_USDT", "LINK_USDT",
      "TON_USDT", "SUI_USDT", "DOT_USDT", "XLM_USDT", "SHIB_USDT",
      "LTC_USDT", "BCH_USDT", "UNI_USDT", "APT_USDT", "NEAR_USDT",
      "ICP_USDT", "ETC_USDT", "HBAR_USDT", "VET_USDT", "FIL_USDT",
      "ALGO_USDT", "THETA_USDT", "XTZ_USDT", "AXS_USDT", "SAND_USDT",
      "MANA_USDT", "GALA_USDT", "CHZ_USDT", "ENJ_USDT", "BAT_USDT",
      "ZIL_USDT", "IOTA_USDT", "EOS_USDT", "NEO_USDT", "QTUM_USDT",
      "ONT_USDT", "ZRX_USDT", "KNC_USDT", "COMP_USDT", "MKR_USDT",
      "YFI_USDT", "AAVE_USDT", "CRV_USDT", "SNX_USDT", "1INCH_USDT",
      "SUSHI_USDT", "LRC_USDT", "DYDX_USDT", "PEPE_USDT">>

\* the universe the loop iterates: the first UniverseSize symbols, in order
SYMBOLS_54 == SubSeq(GateSymbols, 1, UniverseSize)

SymbolSet == {SYMBOLS_54[i] : i \in 1..Len(SYMBOLS_54)}

\* position of a symbol in the universe
UniverseIndex(sym) == CHOOSE i \in 1..Len(SYMBOLS_54) : SYMBOLS_54[i] = sym

(* Inputs of a scan.  klinesData and tickers are objects keyed by symbol: a *)
(* symbol outside the DOMAIN is a missing key (undefined).  A present bar   *)
(* array is one of: a series one bar short of MIN_KLINES, a series with a   *)
(* null bar, or the series of a profile.                                    *)
ScanKinds == {"flat", "up", "down", "zigzag", "short", "nullBar"}

ScanPattern(kind) ==
    CASE kind = "flat" -> <<"F">>
      [] kind = "down" -> <<"D1">>
      [] kind = "zigzag" -> <<"U3", "D1">>
      [] OTHER -> <<"U1">>

ScanProfile(kind) ==
    [lead |-> <<>>, pre |-> ScanPattern(kind),
     motif |-> [i \in 1..MotifLen |-> "U1"], post |-> ScanPattern(kind)]

\* one bar fewer than CONFIG.MIN_KLINES
ShortSeries == SubSeq(BarsOf(ScanProfile("up")), 1, MIN_KLINES - 1)

\* a bar array holding a null element: generateSignal throws on it
NullBarSeries == [BarsOf(ScanProfile("up")) EXCEPT ![MIN_KLINES - 1] = NullBar]

ScanSeriesOf(kind) ==
    CASE kind = "short" -> ShortSeries
      [] kind = "nullBar" -> NullBarSeries
      [] OTHER -> BarsOf(ScanProfile(kind))

\* LoopBranch with the ticker check in front of the data-sufficiency check
LoopBranchTickerFirst(d, t, symbol) ==
    IF symbol \notin DOMAIN t
    THEN "NO_TICKER_DATA"
    ELSE IF symbol \notin DOMAIN d \/ Len(d[symbol]) < MIN_KLINES
    THEN "INSUFFICIENT_DATA"
    ELSE "GENERATE"

\* which branch of the loop body an instrument takes
LoopBranch(d, t, symbol) ==
    IF symbol \notin DOMAIN d \/ Len(d[symbol]) < MIN_KLINES
    THEN "INSUFFICIENT_DATA"
    ELSE IF symbol \notin DOMAIN t
    THEN "NO_TICKER_DATA"
    ELSE "GENERATE"

RECURSIVE InsertByScoreBeforeTies(_, _)
\* InsertByScore that puts x in front of the elements of equal score
InsertByScoreBeforeTies(sorted, x) ==
    IF sorted = <<>> THEN <<x>>
    ELSE IF sorted[1].score - x.score <= 0
    THEN <<x>> \o sorted
    ELSE <<sorted[1]>> \o InsertByScoreBeforeTies(Tail(sorted), x)

RECURSIVE InsertByScore(_, _)
\* sorted is in non-increasing order of score; x goes behind every element
\* whose score is not lower than its own
InsertByScore(sorted, x) ==
    IF sorted = <<>> THEN <<x>>
    ELSE IF sorted[1].score - x.score < 0
    THEN <<x>> \o sorted
    ELSE <<sorted[1]>> \o InsertByScore(Tail(sorted), x)

RECURSIVE SortFrom(_, _, _)
SortFrom(list, i, acc) ==
    IF i > Len(list) THEN acc
    ELSE SortFrom(list, i + 1, InsertByScore(acc, list[i]))

\* signals.sort((a, b) => b.score - a.score): Array.prototype.sort is stable
SortByScore(list) == SortFrom(list, 1, <<>>)

InitScan ==
    /\ \E present \in SUBSET SymbolSet : \E kind \in [present -> ScanKinds] :
           klinesData = [s \in present |-> ScanSeriesOf(kind[s])]
    /\ \E quoted \in SUBSET SymbolSet : tickers \in [quoted -> {[last |-> BasePrice]}]
    /\ pos = 1
    /\ signals = <<>>
    /\ filtered = <<>>
    /\ scanPc = "loop"
    /\ scanResult = Missing
    /\ calls = <<>>
    /\ klines = <<>> /\ ticker = Missing /\ callPc = "idle"
    /\ signal = Missing /\ entryDir = "NONE" /\ entryInfo = Missing
    /\ NoDetect /\ NoServer

InLoop == scanPc = "loop" /\ pos <= Len(SYMBOLS_54)

\* if (!klines || klines.length < CONFIG.MIN_KLINES) { filtered.push; continue }
FilterInsufficient ==
    /\ InLoop
    /\ LoopBranch(klinesData, tickers, SYMBOLS_54[pos]) = "INSUFFICIENT_DATA"
    /\ filtered' = Append(filtered, [symbol |-> SYMBOLS_54[pos],
                                     reason |-> "INSUFFICIENT_DATA"])
    /\ pos' = pos + 1
    /\ UNCHANGED <<klinesData, tickers, signals, scanPc, scanResult, calls>>
    /\ UNCHANGED signalVars
    /\ UNCHANGED <<detectVars, serverVars>>

\* if (!ticker) { filtered.push; continue }
FilterNoTicker ==
    /\ InLoop
    /\ LoopBranch(klinesData, tickers, SYMBOLS_54[pos]) = "NO_TICKER_DATA"
    /\ filtered' = Append(filtered, [symbol |-> SYMBOLS_54[pos],
                                     reason |-> "NO_TICKER_DATA"])
    /\ pos' = pos + 1
    /\ UNCHANGED <<klinesData, tickers, signals, scanPc, scanResult, calls>>
    /\ UNCHANGED signalVars
    /\ UNCHANGED <<detectVars, serverVars>>

\* generateSignal(symbol, klines, ticker) on the loop's klines and ticker
Outcome(symbol) == generateSignal(symbol, klinesData[symbol], tickers[symbol])

\* try { signals.push(generateSignal(symbol, klines, ticker)) }
EmitSignal ==
    /\ InLoop
    /\ LoopBranch(klinesData, tickers, SYMBOLS_54[pos]) = "GENERATE"
    /\ ~Outcome(SYMBOLS_54[pos]).thrown
    /\ signals' = Append(signals, Outcome(SYMBOLS_54[pos]))
    /\ calls' = Append(calls, SYMBOLS_54[pos])
    /\ pos' = pos + 1
    /\ UNCHANGED <<klinesData, tickers, filtered, scanPc, scanResult>>
    /\ UNCHANGED signalVars
    /\ UNCHANGED <<detectVars, serverVars>>

\* CatchError that swallows the error without recording the instrument
CatchErrorSilent ==
    /\ InLoop
    /\ LoopBranch(klinesData, tickers, SYMBOLS_54[pos]) = "GENERATE"
    /\ Outcome(SYMBOLS_54[pos]).thrown
    /\ calls' = Append(calls, SYMBOLS_54[pos])
    /\ pos' = pos + 1
    /\ UNCHANGED <<klinesData, tickers, signals, filtered, scanPc, scanResult>>
    /\ UNCHANGED signalVars
    /\ UNCHANGED <<detectVars, serverVars>>

\* no try/catch around generateSignal: the error leaves the loop and the
\* promise of scanAllSymbolsV2 rejects
CatchErrorRethrows ==
    /\ InLoop
    /\ LoopBranch(klinesData, tickers, SYMBOLS_54[pos]) = "GENERATE"
    /\ Outcome(SYMBOLS_54[pos]).thrown
    /\ calls' = Append(calls, SYMBOLS_54[pos])
    /\ scanPc' = "rejected"
    /\ UNCHANGED <<klinesData, tickers, pos, signals, filtered, scanResult>>
    /\ UNCHANGED signalVars
    /\ UNCHANGED <<detectVars, serverVars>>

\* catch (error) { filtered.push({ symbol, reason, error: error.message }) }
CatchError ==
    /\ InLoop
    /\ LoopBranch(klinesData, tickers, SYMBOLS_54[pos]) = "GENERATE"
    /\ Outcome(SYMBOLS_54[pos]).thrown
    /\ filtered' = Append(filtered, [symbol |-> SYMBOLS_54[pos],
                                     reason |-> "GENERATION_ERROR",
                                     error |-> Outcome(SYMBOLS_54[pos]).message])
    /\ calls' = Append(calls, SYMBOLS_54[pos])
    /\ pos' = pos + 1
    /\ UNCHANGED <<klinesData, tickers, signals, scanPc, scanResult>>
    /\ UNCHANGED signalVars
    /\ UNCHANGED <<detectVars, serverVars>>

\* after the loop: signals.sort(...) and the return statement
SortAndReturn ==
    /\ scanPc = "loop"
    /\ pos > Len(SYMBOLS_54)
    /\ signals' = SortByScore(signals)
    /\ scanResult' = [total_signals |-> Len(signals),
                      signals |-> signals',
                      filtered |-> filtered,
                      data_health |->
                          [status |-> "HEALTHY",
                           kline_count |-> Cardinality(DOMAIN klinesData),
                           ticker_count |-> Cardinality(DOMAIN tickers)]]
    /\ scanPc' = "returned"
    /\ UNCHANGED <<klinesData, tickers, pos, filtered, calls>>
    /\ UNCHANGED signalVars
    /\ UNCHANGED <<detectVars, serverVars>>

Next ==
    \/ FilterInsufficient
    \/ FilterNoTicker
    \/ EmitSignal
    \/ CatchError
    \/ SortAndReturn

Init == InitScan

Spec == Init /\ [][Next]_vars

----------------------------------------------------------------------------
(* server_v3.js: scanStatus and the entry points of performScan.  Node runs *)
(* one callback at a time, so a step is the code between two awaits.  Of    *)
(* the scanStatus object only the status field is modelled; the broadcasts, *)
(* the HTTP responses and the written file are not.  Continuations of       *)
(* different performScan calls run in any order.                            *)

NoCalls ==
    /\ klines = <<>> /\ ticker = Missing /\ callPc = "idle"
    /\ signal = Missing /\ entryDir = "NONE" /\ entryInfo = Missing

\* let scanStatus = { status: 'IDLE', ... }, before server.listen
InitServer ==
    /\ scanStatus = "IDLE"
    /\ running = <<>>
    /\ started = 0
    /\ lastGuard = Missing
    /\ NoCalls /\ NoScan /\ NoDetect

\* performScan(userId) up to its first await: scanStatus = { status:
\* 'RUNNING', ... } and the call of getAllKlines
performScan(userId) ==
    /\ started < MaxScans
    /\ scanStatus' = "RUNNING"
    /\ running' = Append(running, [userId |-> userId, pc |-> "getAllKlines"])
    /\ started' = started + 1

\* s without its i-th element
RemoveAt(s, i) == SubSeq(s, 1, i - 1) \o SubSeq(s, i + 1, Len(s))

\* the outcome of the guard if (scanStatus.status === 'RUNNING')
GuardDecision(entry) ==
    [entry |-> entry, refused |-> scanStatus = "RUNNING",
     inFlight |-> Len(running) > 0]

\* server.listen(PORT, () => { performScan('startup') })
Startup ==
    /\ started = 0
    /\ performScan("startup")
    /\ UNCHANGED lastGuard
    /\ UNCHANGED <<signalVars, scanVars, detectVars>>

\* cron.schedule('*/5 * * * *', ...): skips when RUNNING
CronTick ==
    /\ started > 0
    /\ lastGuard' = GuardDecision("cron")
    /\ IF scanStatus = "RUNNING"
       THEN UNCHANGED <<scanStatus, running, started>>
       ELSE performScan("scheduled")
    /\ UNCHANGED <<signalVars, scanVars, detectVars>>

\* app.post('/api/scan', ...): answers 429 when RUNNING
PostScan ==
    /\ started > 0
    /\ lastGuard' = GuardDecision("POST /api/scan")
    /\ IF scanStatus = "RUNNING"
       THEN UNCHANGED <<scanStatus, running, started>>
       ELSE performScan("manual")
    /\ UNCHANGED <<signalVars, scanVars, detectVars>>

\* app.post('/api/debug/scan', ...): no guard
PostDebugScan ==
    /\ started > 0
    /\ performScan("debug")
    /\ UNCHANGED lastGuard
    /\ UNCHANGED <<signalVars, scanVars, detectVars>>

\* await getAllKlines('4h', 100) resolves: on to getTickers
KlinesResolved ==
    /\ \E i \in 1..Len(running) :
          /\ running[i].pc = "getAllKlines"
          /\ running' = [running EXCEPT ![i].pc = "getTickers"]
    /\ UNCHANGED <<scanStatus, started, lastGuard>>
    /\ UNCHANGED <<signalVars, scanVars, detectVars>>

\* await getTickers() resolves: on to scanAllSymbolsV2
TickersResolved ==
    /\ \E i \in 1..Len(running) :
          /\ running[i].pc = "getTickers"
          /\ running' = [running EXCEPT ![i].pc = "scanAllSymbolsV2"]
    /\ UNCHANGED <<scanStatus, started, lastGuard>>
    /\ UNCHANGED <<signalVars, scanVars, detectVars>>

\* await scanAllSymbolsV2(...) resolves, the result is written:
\* scanStatus = { status: 'IDLE', ... } and the return
ScanCompleted ==
    /\ \E i \in 1..Len(running) :
          /\ running[i].pc = "scanAllSymbolsV2"
          /\ running' = RemoveAt(running, i)
    /\ scanStatus' = "IDLE"
    /\ UNCHANGED <<started, lastGuard>>
    /\ UNCHANGED <<signalVars, scanVars, detectVars>>

\* an await rejects or writeFileSync throws: catch (error) { scanStatus =
\* { status: 'ERROR', ... }; throw error }
ScanFailed ==
    /\ \E i \in 1..Len(running) : running' = RemoveAt(running, i)
    /\ scanStatus' = "ERROR"
    /\ UNCHANGED <<started, lastGuard>>
    /\ UNCHANGED <<signalVars, scanVars, detectVars>>

NextServer ==
    \/ Startup
    \/ CronTick
    \/ PostScan
    \/ PostDebugScan
    \/ KlinesResolved
    \/ TickersResolved
    \/ ScanCompleted
    \/ ScanFailed

SpecServer == InitServer /\ [][NextServer]_vars

----------------------------------------------------------------------------
(* Properties of generateSignal and calculateSMCEntryPrice (SpecSignal) *)

\* generateSignal has returned a signal
Emitted == callPc = "returned" /\ signal # Missing /\ ~signal.thrown

\* C2: a signal whose entry_type is CURRENT_PRICE has rating C and signal_type
\* CANDIDATE, whatever its confidence.
C2_FallbackEntryIsCandidateC ==
    (Emitted /\ signal.entry_type = "CURRENT_PRICE")
        => (signal.rating = "C" /\ signal.signal_type = "CANDIDATE")

\* a CURRENT_PRICE signal whose confidence is at least 85
C2_Witness ==
    /\ Emitted
    /\ signal.entry_type = "CURRENT_PRICE"
    /\ FracGeq(signal.confidence, 85)

KindFor(direction) == IF direction = "LONG" THEN "BULLISH" ELSE "BEARISH"
HasKind(list, kind) == \E i \in 1..Len(list) : list[i].type = kind
\* the most recent element of the kind
LatestOfKind(list, kind) ==
    list[CHOOSE i \in 1..Len(list) :
            /\ list[i].type = kind
            /\ \A j \in (i + 1)..Len(list) : list[j].type # kind]

\* C3: calculateSMCEntryPrice applies FVG > order block > swing point > current
\* price: with a matching FVG the result is FVG_MID at the midline of the most
\* recent matching gap; OB_EDGE only without a matching FVG; a swing entry only
\* without matching FVG and order block; CURRENT_PRICE with fallback = true
\* only when none of the three exists.
C3_EntryPriority ==
    entryDir # "NONE" =>
        LET fvgs == detectFVG(klines)
            swings == findSwingPoints(klines, SWING_LOOKBACK)
            hasFVG == HasKind(fvgs, KindFor(entryDir))
            hasOB == HasKind(detectOrderBlocks(klines), KindFor(entryDir))
            hasSwing == IF entryDir = "LONG" THEN Len(swings.swingLows) > 0
                        ELSE Len(swings.swingHighs) > 0
        IN /\ hasFVG =>
                 /\ entryInfo.type = "FVG_MID"
                 /\ entryInfo.price = LatestOfKind(fvgs, KindFor(entryDir)).mid
           /\ entryInfo.type = "OB_EDGE" => (~hasFVG /\ hasOB)
           /\ entryInfo.type \in {"SWING_LOW", "SWING_HIGH"} =>
                 (~hasFVG /\ ~hasOB /\ hasSwing)
           /\ entryInfo.type = "CURRENT_PRICE" =>
                 /\ ~hasFVG /\ ~hasOB /\ ~hasSwing
                 /\ "fallback" \in DOMAIN entryInfo /\ entryInfo.fallback
           /\ entryInfo.type \in {"FVG_MID", "OB_EDGE", "SWING_LOW",
                                  "SWING_HIGH", "CURRENT_PRICE"}

\* a call in which a matching gap, a matching order block and a matching swing
\* point all exist
C3_Witness ==
    /\ entryDir # "NONE"
    /\ entryInfo.type = "FVG_MID"
    /\ HasKind(detectFVG(klines), KindFor(entryDir))
    /\ HasKind(detectOrderBlocks(klines), KindFor(entryDir))
    /\ LET swings == findSwingPoints(klines, SWING_LOOKBACK)
       IN IF entryDir = "LONG" THEN Len(swings.swingLows) > 0
          ELSE Len(swings.swingHighs) > 0

\* C4: a LONG signal has entry_price < tp1 < tp2 and a SHORT signal has
\* entry_price > tp1 > tp2.
C4_TargetsOrdered ==
    Emitted =>
        /\ signal.direction = "LONG" =>
              (signal.entry_price < signal.tp1 /\ signal.tp1 < signal.tp2)
        /\ signal.direction = "SHORT" =>
              (signal.entry_price > signal.tp1 /\ signal.tp1 > signal.tp2)

\* SMA(20) equals SMA(50) and RSI is exactly 50 on the bars of the call
FlatCrossover ==
    /\ calculateMA(klines, MA_FAST).value = calculateMA(klines, MA_SLOW).value
    /\ calculateRSI(klines, RSI_PERIOD).num = 50 * calculateRSI(klines, RSI_PERIOD).den

\* bullish gaps outnumber bearish gaps among the three most recent gaps
BullishGapsLead ==
    LET recent == LastThree(detectFVG(klines))
    IN Len(OfType(recent, "BULLISH")) > Len(OfType(recent, "BEARISH"))

\* C6 as stated: with SMA(20) = SMA(50) and RSI = 50 the signal is LONG with
\* score 50 and rating C.
C6_NeutralIsLong50C ==
    (Emitted /\ FlatCrossover)
        => (signal.direction = "LONG" /\ signal.score = 50 /\ signal.rating = "C")

\* C6 amended: with SMA(20) = SMA(50) and RSI = 50 the signal is LONG; its
\* score is 50 and its rating C unless bullish gaps outnumber bearish gaps
\* among the three most recent gaps, and then its score is 60 and its rating B.
C6_NeutralIsLongUpToGapBonus ==
    (Emitted /\ FlatCrossover) =>
        /\ signal.direction = "LONG"
        /\ IF BullishGapsLead
           THEN signal.score = 60 /\ signal.rating = "B"
           ELSE signal.score = 50 /\ signal.rating = "C"

\* a neutral series without a leading bullish gap: score 50, rating C
C6_Witness ==
    /\ Emitted /\ FlatCrossover /\ ~BullishGapsLead
    /\ signal.score = 50

\* C7: rrr is (tp1 - entry)/risk for LONG and (entry - tp1)/risk for SHORT,
\* 2 when risk is 0, and hence the positive value 2 in either direction.
C7_RewardRiskIsTwo ==
    Emitted =>
        LET risk == Abs(signal.entry_price - signal.sl)
        IN /\ risk = 0 => signal.rrr = 2
           /\ (risk > 0 /\ signal.direction = "LONG")
                 => signal.rrr * risk = signal.tp1 - signal.entry_price
           /\ (risk > 0 /\ signal.direction = "SHORT")
                 => signal.rrr * risk = signal.entry_price - signal.tp1
           /\ signal.rrr = 2

\* C8: without the CURRENT_PRICE fallback the rating follows the confidence:
\* >= 85 S, >= 70 A, >= 55 B, all TRADABLE, and below 55 C and CANDIDATE.
C8_RatingFollowsConfidence ==
    (Emitted /\ signal.entry_type # "CURRENT_PRICE") =>
        LET c == signal.confidence
            is(r, t) == signal.rating = r /\ signal.signal_type = t
        IN /\ FracGeq(c, 85) => is("S", "TRADABLE")
           /\ (FracGeq(c, 70) /\ ~FracGeq(c, 85)) => is("A", "TRADABLE")
           /\ (FracGeq(c, 55) /\ ~FracGeq(c, 70)) => is("B", "TRADABLE")
           /\ ~FracGeq(c, 55) => is("C", "CANDIDATE")

\* a supported entry whose confidence lies in [70, 85) although its score
\* rounds to 85
C8_Witness ==
    /\ Emitted
    /\ signal.entry_type # "CURRENT_PRICE"
    /\ ~FracGeq(signal.confidence, 85)
    /\ signal.score = 85
    /\ signal.rating = "A"

\* C12 as stated: an entry resolved from a fair-value gap is tradable iff the
\* current price lies inside [bottom, top] of the consulted gap or within
\* 1.5% of the computed entry price.
C12_TradableWithinEntryPercent ==
    (entryDir # "NONE" /\ entryInfo.type = "FVG_MID") =>
        LET cur == CurrentPriceOf(klines, ticker)
            inside == cur >= entryInfo.fvg.bottom /\ cur <= entryInfo.fvg.top
            near == Abs(cur * Unit - entryInfo.price)
                       < MAX_ENTRY_DISTANCE * (entryInfo.price \div 1000)
        IN entryInfo.tradable = (inside \/ near)

\* C12 amended: an entry resolved from a fair-value gap is tradable iff the
\* current price lies inside [bottom, top] of the consulted gap (the most
\* recent matching one) or its distance to the entry is less than 1.5% of
\* the current price; a current price inside that gap always gives FVG_MID
\* with tradable = true.
C12_TradableFlag ==
    entryDir # "NONE" =>
        LET cur == CurrentPriceOf(klines, ticker)
            fvgs == detectFVG(klines)
            inside(gap) == cur >= gap.bottom /\ cur <= gap.top
            near == Abs(cur * Unit - entryInfo.price)
                       < MAX_ENTRY_DISTANCE * cur * (Unit \div 1000)
        IN /\ entryInfo.type = "FVG_MID" =>
                 /\ entryInfo.fvg = LatestOfKind(fvgs, KindFor(entryDir))
                 /\ entryInfo.tradable = (inside(entryInfo.fvg) \/ near)
           /\ (HasKind(fvgs, KindFor(entryDir))
                 /\ inside(LatestOfKind(fvgs, KindFor(entryDir))))
                 => (entryInfo.type = "FVG_MID" /\ entryInfo.tradable)

\* a gap entry that is tradable although the current price is outside the gap
C12_Witness ==
    /\ entryDir # "NONE"
    /\ entryInfo.type = "FVG_MID"
    /\ entryInfo.tradable
    /\ ~(/\ CurrentPriceOf(klines, ticker) >= entryInfo.fvg.bottom
         /\ CurrentPriceOf(klines, ticker) <= entryInfo.fvg.top)

\* C13: the stop of a LONG signal is below its entry and the stop of a SHORT
\* signal above it, whichever rules resolved entry and stop.
C13_StopOnProtectiveSide ==
    Emitted =>
        /\ signal.direction = "LONG" => signal.sl < signal.entry_price
        /\ signal.direction = "SHORT" => signal.sl > signal.entry_price

\* the stop types that belong to the rule an entry type comes from
StopTypesOf(entryType) ==
    CASE entryType = "FVG_MID" -> {"FVG_BOTTOM", "FVG_TOP"}
      [] entryType = "OB_EDGE" -> {"OB_LOW", "OB_HIGH"}
      [] entryType \in {"SWING_LOW", "SWING_HIGH"} -> {"SWING_LOW", "SWING_HIGH"}
      [] entryType = "CURRENT_PRICE" -> {"ATR"}
      [] OTHER -> {}

\* C21: the entry and the stop of a signal come from the same rule: FVG_MID
\* with FVG_BOTTOM or FVG_TOP, OB_EDGE with OB_LOW or OB_HIGH, a swing entry
\* with a swing stop, and the CURRENT_PRICE entry with the ATR stop.
C21_EntryAndStopSameTier ==
    Emitted => signal.sl_type \in StopTypesOf(signal.entry_type)

\* a signal whose entry and stop both come from an order block although the
\* series has a gap of the other kind
C21_Witness ==
    /\ Emitted
    /\ signal.entry_type = "OB_EDGE"
    /\ signal.sl_type \in {"OB_LOW", "OB_HIGH"}
    /\ Len(detectFVG(klines)) > 0

----------------------------------------------------------------------------
(* Properties of scanAllSymbolsV2 (Spec) *)

Returned == scanPc = "returned"

\* number of elements of list that carry the symbol
CountOf(list, sym) == Cardinality({i \in 1..Len(list) : list[i].symbol = sym})

Insufficient(sym) ==
    sym \notin DOMAIN klinesData \/ Len(klinesData[sym]) < MIN_KLINES

\* C1: in the returned ScanResult every symbol of the universe is exactly one
\* signal or exactly one filtered entry, so total_signals + length(filtered)
\* is the size of the universe.
C1_ExactlyOneOutcome ==
    Returned =>
        /\ \A sym \in SymbolSet :
              CountOf(scanResult.signals, sym) + CountOf(scanResult.filtered, sym) = 1
        /\ scanResult.total_signals = Len(scanResult.signals)
        /\ scanResult.total_signals + Len(scanResult.filtered) = Len(SYMBOLS_54)

\* a result that holds signals, a filtered entry and a caught error
C1_Witness ==
    /\ Returned
    /\ scanResult.total_signals >= 1
    /\ \E i \in 1..Len(scanResult.filtered) :
          scanResult.filtered[i].reason = "GENERATION_ERROR"
    /\ \E i \in 1..Len(scanResult.filtered) :
          scanResult.filtered[i].reason = "NO_TICKER_DATA"

\* C5: the returned signals are in non-increasing order of score, signals of
\* equal score keep the order of their symbols in the universe, and until the
\* loop has ended the signals stay in the order of discovery.
C5_SortedByScoreStable ==
    /\ Returned =>
          \A i, j \in 1..Len(scanResult.signals) :
              i < j =>
                  /\ scanResult.signals[i].score >= scanResult.signals[j].score
                  /\ scanResult.signals[i].score = scanResult.signals[j].score
                        => UniverseIndex(scanResult.signals[i].symbol)
                              < UniverseIndex(scanResult.signals[j].symbol)
    /\ scanPc = "loop" =>
          \A i, j \in 1..Len(signals) :
              i < j => UniverseIndex(signals[i].symbol)
                          < UniverseIndex(signals[j].symbol)

\* a result in which the sort moved the first discovered signal behind two
\* signals that tie on a higher score
C5_Witness ==
    /\ Returned
    /\ Len(scanResult.signals) >= 3
    /\ scanResult.signals[1].score = scanResult.signals[2].score
    /\ scanResult.signals[2].score > scanResult.signals[3].score
    /\ scanResult.signals[3].symbol = SYMBOLS_54[1]

\* generateSignal throws for the k-th instrument
ThrowsAt(k) ==
    /\ ~Insufficient(SYMBOLS_54[k])
    /\ SYMBOLS_54[k] \in DOMAIN tickers
    /\ HasNullBar(klinesData[SYMBOLS_54[k]])

\* C9: an instrument for which generateSignal throws becomes a filtered entry
\* GENERATION_ERROR with the error's message and no signal, the loop goes on
\* with the later instruments, and the scan returns instead of rejecting.
C9_ErrorsAreIsolated ==
    /\ scanPc # "rejected"
    /\ \A k \in 1..Len(SYMBOLS_54) :
          (k < pos /\ ThrowsAt(k)) =>
              /\ \E i \in 1..Len(filtered) :
                    /\ filtered[i].symbol = SYMBOLS_54[k]
                    /\ filtered[i].reason = "GENERATION_ERROR"
                    /\ filtered[i].error =
                          "Cannot read properties of null (reading 'high')"
              /\ CountOf(signals, SYMBOLS_54[k]) = 0
    /\ Returned =>
          \A k \in 1..Len(SYMBOLS_54) :
              CountOf(scanResult.signals, SYMBOLS_54[k])
                  + CountOf(scanResult.filtered, SYMBOLS_54[k]) >= 1

\* a returned scan in which an instrument threw and the next one gave a signal
C9_Witness ==
    /\ Returned
    /\ \E k \in 1..(Len(SYMBOLS_54) - 1) :
          /\ ThrowsAt(k)
          /\ CountOf(scanResult.signals, SYMBOLS_54[k + 1]) = 1

HasEntry(sym, reason) ==
    \E i \in 1..Len(filtered) :
        filtered[i] = [symbol |-> sym, reason |-> reason]

\* C10: missing bars or fewer than MIN_KLINES bars give INSUFFICIENT_DATA with
\* or without a ticker; enough bars without a ticker give NO_TICKER_DATA; and
\* generateSignal is called exactly for the instruments with enough bars and
\* a ticker.
C10_DataCheckPrecedesTickerCheck ==
    /\ \A k \in 1..(pos - 1) :
          LET sym == SYMBOLS_54[k]
              called == \E i \in 1..Len(calls) : calls[i] = sym
          IN /\ Insufficient(sym) => HasEntry(sym, "INSUFFICIENT_DATA")
             /\ (~Insufficient(sym) /\ sym \notin DOMAIN tickers)
                   => HasEntry(sym, "NO_TICKER_DATA")
             /\ called <=> (~Insufficient(sym) /\ sym \in DOMAIN tickers)
    /\ \A i \in 1..Len(calls) :
          \E k \in 1..(pos - 1) : SYMBOLS_54[k] = calls[i]

\* an instrument with too few bars and no ticker, filtered for its bars, and
\* one with a missing key and a ticker
C10_Witness ==
    /\ \E k \in 1..(pos - 1) :
          /\ SYMBOLS_54[k] \in DOMAIN klinesData
          /\ Insufficient(SYMBOLS_54[k])
          /\ SYMBOLS_54[k] \notin DOMAIN tickers
          /\ HasEntry(SYMBOLS_54[k], "INSUFFICIENT_DATA")
    /\ \E k \in 1..(pos - 1) :
          /\ SYMBOLS_54[k] \notin DOMAIN klinesData
          /\ SYMBOLS_54[k] \in DOMAIN tickers
          /\ HasEntry(SYMBOLS_54[k], "INSUFFICIENT_DATA")

----------------------------------------------------------------------------
(* Properties of the structure detectors and the indicators (SpecDetect) *)

\* the detectors have returned
Detected == callPc = "detected" /\ detected # Missing

\* the indicators have returned
Calculated == callPc = "calculated" /\ indicators # Missing

\* C11: every gap detectFVG emits has top > bottom and mid = (top + bottom)/2;
\* a bullish gap has top = k3.low and bottom = k1.high, a bearish gap has
\* top = k1.low and bottom = k3.high; the gaps are listed in non-decreasing
\* order of index.
C11_GapsWellFormed ==
    Detected =>
        \A k \in 1..Len(detected.fvgList) :
            LET gap == detected.fvgList[k]
            IN /\ gap.top > gap.bottom
               /\ 2 * gap.mid = (gap.top + gap.bottom) * Unit
               /\ gap.index \in 3..Len(klines)
               /\ gap.type \in {"BULLISH", "BEARISH"}
               /\ gap.type = "BULLISH" =>
                     /\ gap.top = klines[gap.index].low
                     /\ gap.bottom = klines[gap.index - 2].high
               /\ gap.type = "BEARISH" =>
                     /\ gap.top = klines[gap.index - 2].low
                     /\ gap.bottom = klines[gap.index].high
               /\ k < Len(detected.fvgList) =>
                     gap.index <= detected.fvgList[k + 1].index

\* a list that holds a bullish gap followed by a bearish gap
C11_Witness ==
    /\ Detected
    /\ \E j, k \in 1..Len(detected.fvgList) :
          /\ j < k
          /\ detected.fvgList[j].type = "BULLISH"
          /\ detected.fvgList[k].type = "BEARISH"

\* the bar sequence with the roles of high and low exchanged: every price
\* is negated, so that high becomes -low and low becomes -high
Mirror(ks) ==
    [i \in 1..Len(ks) |->
        [time |-> ks[i].time, open |-> -ks[i].open, close |-> -ks[i].close,
         high |-> -ks[i].low, low |-> -ks[i].high]]

IndexSet(list) == {list[k].index : k \in 1..Len(list)}

\* C14: the swing highs of the mirrored sequence are at the indices of the
\* swing lows of the original, and its swing lows at the indices of the
\* original's swing highs.
C14_MirrorSwapsSwings ==
    Detected =>
        LET mirrored == findSwingPoints(Mirror(klines), SWING_LOOKBACK)
        IN /\ IndexSet(mirrored.swingHighs) = IndexSet(detected.swingPoints.swingLows)
           /\ IndexSet(mirrored.swingLows) = IndexSet(detected.swingPoints.swingHighs)

\* a sequence with a swing high and a swing low, at different bars
C14_Witness ==
    /\ Detected
    /\ Len(detected.swingPoints.swingHighs) > 0
    /\ Len(detected.swingPoints.swingLows) > 0
    /\ IndexSet(detected.swingPoints.swingHighs)
          # IndexSet(detected.swingPoints.swingLows)

\* no close of the last period transitions is below the close before it
NoLossOver(ks, period) ==
    \A i \in (Len(ks) - period + 1)..Len(ks) : ks[i].close >= ks[i - 1].close

\* C15: with fewer than period + 1 bars calculateATR returns 0 and
\* calculateRSI returns 50; with fewer than period bars calculateMA returns
\* null; calculateRSI returns 100 when the losses of the last period
\* transitions sum to 0.
C15_IndicatorDefaults ==
    Calculated =>
        /\ Len(klines) < indicators.period + 1 =>
              /\ indicators.atr = 0
              /\ indicators.rsi.num = 50 * indicators.rsi.den
        /\ Len(klines) < indicators.period => indicators.ma = Missing
        /\ (Len(klines) >= indicators.period + 1
               /\ NoLossOver(klines, indicators.period))
              => indicators.rsi.num = 100 * indicators.rsi.den

\* exactly period bars with prices that move: the moving average is
\* available, ATR and RSI are the defaults
C15_Witness ==
    /\ Calculated
    /\ Len(klines) = indicators.period
    /\ indicators.ma # Missing
    /\ indicators.atr = 0
    /\ klines[1].close # klines[2].close

\* the bars k1, k2, k3 that end at position i form a bullish order block
BullishWindow(ks, i) ==
    /\ ks[i - 2].close < ks[i - 2].open
    /\ ks[i - 1].close < ks[i - 1].open
    /\ ks[i - 1].low < ks[i - 2].low
    /\ ks[i].close > ks[i].open
    /\ ks[i].close > ks[i - 1].high

BearishWindow(ks, i) ==
    /\ ks[i - 2].close > ks[i - 2].open
    /\ ks[i - 1].close > ks[i - 1].open
    /\ ks[i - 1].high > ks[i - 2].high
    /\ ks[i].close < ks[i].open
    /\ ks[i].close < ks[i - 1].low

\* list holds a block of the type that copies the bar at position j
HasBlock(list, type, ks, j) ==
    \E k \in 1..Len(list) :
        /\ list[k].type = type
        /\ list[k].index = j
        /\ list[k].high = ks[j].high /\ list[k].low = ks[j].low
        /\ list[k].open = ks[j].open /\ list[k].close = ks[j].close
        /\ list[k].timestamp = ks[j].time

\* C18: for every window of four consecutive bars, the window that ends at
\* the last bar included, a bullish (bearish) pattern gives a bullish
\* (bearish) block that copies k2 and carries the position of k2.
C18_BlockForEveryWindow ==
    Detected =>
        \A i \in 4..Len(klines) :
            /\ BullishWindow(klines, i)
                  => HasBlock(detected.obList, "BULLISH", klines, i - 1)
            /\ BearishWindow(klines, i)
                  => HasBlock(detected.obList, "BEARISH", klines, i - 1)

----------------------------------------------------------------------------
(* Properties of detectBOS (SpecBOS) *)

BOSReturned == callPc = "returned" /\ swingArg # Missing

\* list holds a break of the type at the level
HasBreak(list, type, level, confirmed) ==
    \E k \in 1..Len(list) :
        /\ list[k].type = type
        /\ list[k].level = level
        /\ list[k].confirmed = confirmed

\* C17: with at least two swing highs, a previous close <= the
\* second-to-last swing high and a latest close above it, detectBOS emits a
\* bullish break at that level, confirmed iff the latest bar closed above
\* its open; symmetrically a bearish break with at least two swing lows.
\* Each depends only on the swing points of its own kind.
C17_BreakPerKind ==
    BOSReturned =>
        LET lastKline == klines[Len(klines)]
            prevKline == klines[Len(klines) - 1]
            highs == swingArg.swingHighs
            lows == swingArg.swingLows
        IN /\ (/\ Len(highs) >= 2
               /\ prevKline.close <= highs[Len(highs) - 1].price
               /\ lastKline.close > highs[Len(highs) - 1].price)
              => HasBreak(bosList, "BULLISH", highs[Len(highs) - 1].price,
                          lastKline.close > lastKline.open)
           /\ (/\ Len(lows) >= 2
               /\ prevKline.close >= lows[Len(lows) - 1].price
               /\ lastKline.close < lows[Len(lows) - 1].price)
              => HasBreak(bosList, "BEARISH", lows[Len(lows) - 1].price,
                          lastKline.close < lastKline.open)

\* C20: detectBOS returns at most one break.
C20_AtMostOneBreak == BOSReturned => Len(bosList) <= 1

\* one break, although the latest close is above the second-to-last swing
\* high and below the second-to-last swing low
C20_Witness ==
    /\ BOSReturned
    /\ Len(bosList) = 1
    /\ Len(swingArg.swingHighs) >= 2 /\ Len(swingArg.swingLows) >= 2
    /\ klines[Len(klines)].close
          > swingArg.swingHighs[Len(swingArg.swingHighs) - 1].price
    /\ klines[Len(klines)].close
          < swingArg.swingLows[Len(swingArg.swingLows) - 1].price

----------------------------------------------------------------------------
(* Properties of the server's scans (SpecServer) *)

\* C16: a performScan call does not start while a previous one has not
\* finished: at most one scan is in progress.
C16_SingleScanInFlight == Len(running) <= 1

\* C19: scanStatus.status is RUNNING exactly while some performScan call is
\* in progress, and a guard refuses exactly when a scan is in flight.
C19_RunningIffScanInFlight ==
    /\ (scanStatus = "RUNNING") <=> (Len(running) > 0)
    /\ lastGuard # Missing => (lastGuard.refused <=> lastGuard.inFlight)

====
